---- MODULE Spec2Model ----
(***************************************************************************)
(* ValidateOrRevokeMessagesJobScheduler                                    *)
(* (apps/hubble/src/storage/jobs/validateOrRevokeMessagesJob.ts).          *)
(*                                                                         *)
(* One scheduler instance in one Node.js process.  Every call of doJobs()  *)
(* is a "run"; a run advances from one await to the next in one step, so   *)
(* the steps of several runs interleave exactly at the awaits of the code. *)
(* The database (checkpoint, entity ids, records) outlives a process       *)
(* crash; the scheduler object and its runs do not.                        *)
(***************************************************************************)
EXTENDS Integers, Sequences, FiniteSets, TLC

\* ---------------------------------------------------------------- bounds
MaxFid == 3            \* entity ids are 1..MaxFid
MaxRuns == 2           \* doJobs() calls that get past the flag check, in all
MaxTicks == 1          \* the wall clock advances at most this many times
MaxSigners == 2        \* events doJobForFid may accumulate (its fetch loop is capped)
MaxStarts == 2         \* start() calls per process
MaxEvents == 1         \* signer-change events that arrive, in all

\* ------------------------------------------------------ program constants
\* line 97: totalFidsChecked % 5000; scaled down so that a batch fits MaxFid
BatchSize == 2
\* line 72: pageSize: 100; scaled down so that a scan needs several pages
PageSize == 2
\* db/types.ts
FID_BYTES == 4
TSHASH_LENGTH == 24
UserMessagePostfixMax == 7
UserDataMessage == 6
UsernameProofMessage == 7
\* @farcaster/hub-nodejs time.ts (1609459200000 there; scaled to fit TLC's integers)
FARCASTER_EPOCH == 10000
\* the clock advances by a second at a time
TickMs == 1000

Fids == 1..MaxFid
Runs == 1..MaxRuns
NoToken == 0           \* pageToken === undefined
NoTask == 0            \* _cronTask === undefined

VARIABLES
    now,               \* Date.now(), in milliseconds
    fids,              \* the entity ids in the store
    lateFids,          \* history: ids added after an interrupted run, before the next
    signerPages,       \* per entity: the pages of its signer-change events
    keys,              \* per entity: the keys under makeUserKey(fid), in key order
    ckpt,              \* hubState.validateOrRevokeState as persisted
    running,           \* this._running
    pc,                \* per run: the await it is suspended at
    lastReturn,        \* what the latest doJobs() call to return has returned
    lastJobTimestamp,  \* per run: line 58
    lastFid,           \* per run: line 59
    start,             \* per run: line 67
    pageToken,         \* per run: line 70
    finished,          \* per run: line 69
    page,              \* per run: fids of the current page (line 77)
    idx,               \* per run: i of the for loop (line 84), 1-based
    totalFidsChecked,  \* per run: line 65
    totalMessagesChecked, \* per run: line 64
    allSigners,        \* per run: doJobForFid's allSigners (line 136), block timestamps
    numChecked,        \* per run: what doJobForFid returned (line 91)
    hist,              \* per run: history of the calls the run has made
    cronTask,          \* this._cronTask: the task the latest start() created
    scheduled,         \* the node-cron tasks that fire
    lastCall,          \* history: the latest of start() and stop() to return
    fired,             \* history: a task has fired doJobs() since that call
    pending            \* history: entities with a signer-change event that has
                       \* arrived and no record sweep since

vars == << now, fids, lateFids, signerPages, keys, ckpt, running, pc,
           lastReturn, lastJobTimestamp, lastFid, start, pageToken, finished, page,
           idx, totalFidsChecked, totalMessagesChecked, allSigners, numChecked,
           hist, cronTask, scheduled, lastCall, fired, pending >>

schedVars == << cronTask, scheduled, lastCall, fired >>

storeVars == << fids, lateFids, signerPages, keys >>
runVars == << lastJobTimestamp, lastFid, start, pageToken, finished, page, idx,
              totalFidsChecked, totalMessagesChecked, allSigners, numChecked >>

\* ------------------------------------------------------------ pure helpers
Max(S) == CHOOSE x \in S : \A y \in S : y <= x
Min(S) == CHOOSE x \in S : \A y \in S : x <= y

\* Math.round of a non-negative quotient n/d: halves round up
RoundDiv(n, d) == (2 * n + d) \div (2 * d)

\* toFarcasterTime(time).unwrapOr(0): an error (time before the epoch) becomes 0
ToFarcasterTimeOr0(time) ==
    IF time < FARCASTER_EPOCH THEN 0 ELSE RoundDiv(time - FARCASTER_EPOCH, 1000)

\* 1 + FID_BYTES + 1 + TSHASH_LENGTH (lines 178, 229)
MessageKeyLength == 1 + FID_BYTES + 1 + TSHASH_LENGTH

\* A key under an entity's prefix, with what decoding and validating its value do.
Key(id, len, postfix, decodes, outcome) ==
    [id |-> id, len |-> len, postfix |-> postfix, decodes |-> decodes, outcome |-> outcome]

\* The stores an entity may hold at start-up, in key order.
RichKeys ==
    << Key(1, MessageKeyLength, 1, TRUE, "kept"),
       Key(6, MessageKeyLength - 4, UserDataMessage, TRUE, "kept"),
       Key(2, MessageKeyLength, UserDataMessage, TRUE, "revoked"),
       Key(3, MessageKeyLength, UsernameProofMessage, FALSE, "kept"),
       Key(4, MessageKeyLength, UsernameProofMessage, TRUE, "error"),
       Key(5, MessageKeyLength, UserMessagePostfixMax + 1, TRUE, "kept") >>
PlainKeys ==
    << Key(6, MessageKeyLength + 1, 1, TRUE, "kept"),
       Key(1, MessageKeyLength, 1, TRUE, "revoked"),
       Key(2, MessageKeyLength, UserDataMessage, TRUE, "kept") >>

\* Block timestamps are unix seconds; EpochSec is the Farcaster epoch in seconds.
EpochSec == FARCASTER_EPOCH \div 1000
\* The stores the model starts from.  Signer events: no entity has any, or
\* entity 2 has one recent event, or entity 1 has two pages of events.  Keys:
\* odd entities hold RichKeys, even ones PlainKeys.
NoSigners == << <<>> >>
OneSigner == << << EpochSec + 1 >> >>
TwoSignerPages == << << EpochSec - 1 >>, << EpochSec + 2 >> >>
SignerStores ==
    { [f \in Fids |-> NoSigners],
      [f \in Fids |-> IF f = 2 THEN OneSigner ELSE NoSigners],
      [f \in Fids |-> IF f = 1 THEN TwoSignerPages ELSE NoSigners] }
KeyStores == { [f \in Fids |-> IF f % 2 = 1 THEN RichKeys ELSE PlainKeys] }

ZeroCheckpoint == [lastFid |-> 0, lastJobTimestamp |-> 0]
\* What a run has done so far: the entities getFids has returned to it, those
\* doJobForFid / doUsernamesJobForFid were called for, the number of entities
\* it has processed since its last checkpoint write, the number of
\* validateOrRevokeMessage calls it has made; and for the entity whose
\* scans it began last (fid): whether its signer fetch failed, whether its
\* record sweep ran, and the keys passed to messageDecode and to
\* validateOrRevokeMessage, as <<scan, key>>.
NoHist == [returned |-> {}, jobFids |-> {}, nameFids |-> {}, sincePut |-> 0,
           calls |-> 0, fid |-> 0, sigErr |-> FALSE, swept |-> FALSE, decoded |-> {},
           validated |-> {}]

\* The first await of doJobForFid(f) has returned: the history turns to f
BeginEntity(h, f) ==
    IF h.fid = f THEN h
    ELSE [h EXCEPT !.fid = f, !.sigErr = FALSE, !.swept = FALSE,
                   !.decoded = {}, !.validated = {}]

\* ------------------------------------------------- the code's conditions
\* (mutant: the resume point itself is skipped too)
SkipsFid_OffByOne(lf, fid) == lf > 0 /\ fid <= lf

\* line 87: if (lastFid > 0 && fid < lastFid) continue
SkipsFid(lf, fid) == lf > 0 /\ fid < lf

\* (mutant: the count of the unconditional scan is left out of the total)
AddCounts_DropsUsernames(total, n, u) == total + n

\* line 94: totalMessagesChecked += numChecked.unwrapOr(0) + numUsernamesChecked.unwrapOr(0)
AddCounts(total, n, u) == total + n + u

\* (mutant: the checkpoint is written one entity late)
BatchBoundary_OffByOne(n) == n % BatchSize = 1

\* line 97: if (totalFidsChecked % 5000 === 0)
BatchBoundary(n) == n % BatchSize = 0

\* lines 103-106: the progress checkpoint of run r after entity fid
ProgressCheckpoint(r, fid) ==
    [lastFid |-> fid, lastJobTimestamp |-> lastJobTimestamp[r]]

\* lines 115-118: the terminal checkpoint of run r
TerminalCheckpoint(r) ==
    [lastFid |-> 0, lastJobTimestamp |-> ToFarcasterTimeOr0(start[r])]

\* lines 161-166: newest signer event of the accumulated events, in Farcaster time
LatestSignerEventTs(all) ==
    ToFarcasterTimeOr0(1000 * Max({0} \cup { all[i] : i \in 1..Len(all) }))

\* (mutant: an entity changed exactly at the watermark is skipped too)
SkipsSweep_AtEquality(latest, ljt) == latest <= ljt

\* (mutant: the comparison is the wrong way round)
SkipsSweep_Inverted(latest, ljt) == latest > ljt

\* line 168: if (latestSignerEventTs < lastJobTimestamp) return ok(0)
SkipsSweep(latest, ljt) == latest < ljt

\* (mutant: longer keys pass the length check)
KeyLengthPasses_AtLeast(len) == len >= MessageKeyLength

\* lines 178, 229: (key as Buffer).length !== 1 + FID_BYTES + 1 + TSHASH_LENGTH
KeyLengthPasses(len) == len = MessageKeyLength

\* line 185: postfix > UserMessagePostfixMax is skipped
JobPostfixPasses(postfix) == postfix <= UserMessagePostfixMax

\* (mutant: user-data records are left out)
NamesPostfixPasses_ProofOnly(postfix) == postfix = UsernameProofMessage

\* line 236: only UsernameProofMessage and UserDataMessage pass
NamesPostfixPasses(postfix) ==
    postfix = UsernameProofMessage \/ postfix = UserDataMessage

PostfixPasses(scan, postfix) ==
    IF scan = "job" THEN JobPostfixPasses(postfix) ELSE NamesPostfixPasses(postfix)

\* (mutant: a record whose validation returns an error is not counted)
Callback_ErrorNotCounted(scan, k, acc) ==
    IF ~KeyLengthPasses(k.len) THEN acc
    ELSE IF ~PostfixPasses(scan, k.postfix) THEN acc
    ELSE IF ~k.decodes THEN [acc EXCEPT !.decoded = @ \cup {k}]
    ELSE [acc EXCEPT !.decoded = @ \cup {k},
                     !.validated = @ \cup {k},
                     !.count = IF k.outcome = "error" THEN @ ELSE @ + 1,
                     !.revoked = IF k.outcome = "revoked" THEN @ \cup {k.id} ELSE @]

\* The per-key callback of forEachIteratorByPrefix (lines 177-209, 228-260).
Callback(scan, k, acc) ==
    IF ~KeyLengthPasses(k.len) THEN acc
    ELSE IF ~PostfixPasses(scan, k.postfix) THEN acc
    ELSE IF ~k.decodes THEN [acc EXCEPT !.decoded = @ \cup {k}]
    ELSE [acc EXCEPT !.decoded = @ \cup {k},
                     !.validated = @ \cup {k},
                     !.count = @ + 1,
                     !.revoked = IF k.outcome = "revoked" THEN @ \cup {k.id} ELSE @]

\* forEachIteratorByPrefix: the callback on every key of the prefix, in key order.
RECURSIVE ScanKeys(_, _, _)
ScanKeys(ks, scan, acc) ==
    IF ks = <<>> THEN acc
    ELSE ScanKeys(Tail(ks), scan, Callback(scan, Head(ks), acc))

NoScan == [count |-> 0, decoded |-> {}, validated |-> {}, revoked |-> {}]
Scan(f, scan) == ScanKeys(keys[f], scan, NoScan)

\* validateOrRevokeMessage removes a message it revokes from the store.
KeysAfter(f, sc) == SelectSeq(keys[f], LAMBDA k : k.id \notin sc.revoked)

\* ------------------------------------------------------------- the engine
RECURSIVE SortedSeq(_)
SortedSeq(S) == IF S = {} THEN <<>> ELSE << Min(S) >> \o SortedSeq(S \ {Min(S)})

\* engine.getFids({pageToken, pageSize}): ascending ids after the token
FidsAfter(token) == SortedSeq({ f \in fids : f > token })
GetFidsPage(token) ==
    LET rest == FidsAfter(token)
        n == IF Len(rest) > PageSize THEN PageSize ELSE Len(rest)
        p == SubSeq(rest, 1, n)
    IN [fids |-> p,
        nextPageToken |-> IF Len(rest) > PageSize THEN p[n] ELSE NoToken]

\* ------------------------------------------------------------------ Init
Init ==
    /\ now = FARCASTER_EPOCH
    /\ fids = 1..(MaxFid - 1)
    /\ lateFids = {}
    /\ signerPages \in SignerStores
    /\ keys \in KeyStores
    /\ ckpt = ZeroCheckpoint
    /\ running = FALSE
    /\ pc = [r \in Runs |-> "idle"]
    /\ lastReturn = "none"
    /\ lastJobTimestamp = [r \in Runs |-> 0]
    /\ lastFid = [r \in Runs |-> 0]
    /\ start = [r \in Runs |-> 0]
    /\ pageToken = [r \in Runs |-> NoToken]
    /\ finished = [r \in Runs |-> FALSE]
    /\ page = [r \in Runs |-> <<>>]
    /\ idx = [r \in Runs |-> 1]
    /\ totalFidsChecked = [r \in Runs |-> 0]
    /\ totalMessagesChecked = [r \in Runs |-> 0]
    /\ allSigners = [r \in Runs |-> <<>>]
    /\ numChecked = [r \in Runs |-> 0]
    /\ hist = [r \in Runs |-> NoHist]
    /\ cronTask = NoTask
    /\ scheduled = {}
    /\ lastCall = "none"
    /\ fired = FALSE
    /\ pending = {}

\* -------------------------------------------------------------- doJobs()
\* A run is in flight from the flag check of its doJobs() call to its return
InFlight(r) == pc[r] \notin {"idle", "done"}

\* A call that has returned (or died with the process) leaves no locals behind
Gone(r) ==
    /\ pc' = [pc EXCEPT ![r] = "done"]
    /\ lastJobTimestamp' = [lastJobTimestamp EXCEPT ![r] = 0]
    /\ lastFid' = [lastFid EXCEPT ![r] = 0]
    /\ start' = [start EXCEPT ![r] = 0]
    /\ pageToken' = [pageToken EXCEPT ![r] = NoToken]
    /\ finished' = [finished EXCEPT ![r] = FALSE]
    /\ page' = [page EXCEPT ![r] = <<>>]
    /\ idx' = [idx EXCEPT ![r] = 1]
    /\ totalFidsChecked' = [totalFidsChecked EXCEPT ![r] = 0]
    /\ totalMessagesChecked' = [totalMessagesChecked EXCEPT ![r] = 0]
    /\ allSigners' = [allSigners EXCEPT ![r] = <<>>]
    /\ numChecked' = [numChecked EXCEPT ![r] = 0]
    /\ hist' = [hist EXCEPT ![r] = NoHist]

\* lines 84-110: from index i of page p on, skip the entities below the resume
\* point; the run stops at the next await: doJobForFid's signer fetch for the
\* first entity not skipped, the next getFids, or the terminal checkpoint write.
RECURSIVE NextIdx(_, _, _)
NextIdx(p, i, lf) ==
    IF i > Len(p) THEN i
    ELSE IF SkipsFid(lf, p[i]) THEN NextIdx(p, i + 1, lf)
    ELSE i

\* (mutant: the entities of the page without a continuation token are left out)
LoopNext_SkipsLastPage(p, i, lf, fin) ==
    LET j == NextIdx(p, i, lf)
    IN IF fin THEN [pc |-> "putFinal", idx |-> Len(p) + 1]
       ELSE IF j <= Len(p) THEN [pc |-> "signers", idx |-> j]
       ELSE [pc |-> "getFids", idx |-> j]

LoopNext(p, i, lf, fin) ==
    LET j == NextIdx(p, i, lf)
    IN IF j <= Len(p) THEN [pc |-> "signers", idx |-> j]
       ELSE IF fin THEN [pc |-> "putFinal", idx |-> j]
       ELSE [pc |-> "getFids", idx |-> j]

\* doJobForFid is entered for p[nx.idx] when the loop stops at "signers"
EnterJob(h, p, nx) ==
    IF nx.pc = "signers" THEN [h EXCEPT !.jobFids = @ \cup {p[nx.idx]}] ELSE h

\* (mutant: the skipped call clears the flag on its way out)
TriggerSkipped_ClearsFlag ==
    /\ running
    /\ lastReturn' = "skipped"
    /\ running' = FALSE
    /\ UNCHANGED << schedVars, pending, now, storeVars, ckpt, pc, runVars, hist >>

\* lines 46-49: doJobs() is called while the flag is set: ok(0)
TriggerSkipped ==
    /\ running
    /\ lastReturn' = "skipped"
    /\ UNCHANGED << schedVars, pending, now, storeVars, ckpt, running, pc, runVars, hist >>

\* lines 46-51: doJobs() is called while the flag is clear: the call suspends in
\* getHubState
Trigger(r) ==
    /\ ~running
    /\ pc[r] = "idle"
    /\ \A q \in Runs : q < r => pc[q] # "idle"
    /\ pc' = [pc EXCEPT ![r] = "getHubState"]
    /\ UNCHANGED << schedVars, pending, now, storeVars, ckpt, running, lastReturn, runVars, hist >>

\* lines 52-55: getHubState failed
GetHubStateErr(r) ==
    /\ pc[r] = "getHubState"
    /\ Gone(r)
    /\ lastReturn' = "err"
    /\ UNCHANGED << schedVars, pending, now, storeVars, ckpt, running >>

\* lines 56-72: the checkpoint is loaded, the flag set, the first page requested
GetHubStateOk(r) ==
    /\ pc[r] = "getHubState"
    /\ lastJobTimestamp' = [lastJobTimestamp EXCEPT ![r] = ckpt.lastJobTimestamp]
    /\ lastFid' = [lastFid EXCEPT ![r] = ckpt.lastFid]
    /\ running' = TRUE
    /\ start' = [start EXCEPT ![r] = now]
    /\ pc' = [pc EXCEPT ![r] = "getFids"]
    /\ UNCHANGED << schedVars, pending, now, storeVars, ckpt, lastReturn, pageToken, finished, page,
                    idx, totalFidsChecked, totalMessagesChecked, allSigners,
                    numChecked, hist >>

\* (mutant: the abort path writes the terminal checkpoint before it returns)
GetFidsErr_WritesCheckpoint(r) ==
    /\ pc[r] = "getFids"
    /\ Gone(r)
    /\ lastReturn' = "err"
    /\ ckpt' = TerminalCheckpoint(r)
    /\ UNCHANGED << schedVars, pending, now, storeVars, running >>

\* lines 73-75: getFids failed; the run returns the error
GetFidsErr(r) ==
    /\ pc[r] = "getFids"
    /\ Gone(r)
    /\ lastReturn' = "err"
    /\ UNCHANGED << schedVars, pending, now, storeVars, ckpt, running >>

\* lines 77-91: a page arrives; the loop runs up to its next await
GetFidsOk(r) ==
    /\ pc[r] = "getFids"
    /\ LET got == GetFidsPage(pageToken[r])
           fin == got.nextPageToken = NoToken
           nx == LoopNext(got.fids, 1, lastFid[r], fin)
       IN /\ finished' = [finished EXCEPT ![r] = fin]
          /\ pageToken' = [pageToken EXCEPT ![r] =
                              IF fin THEN @ ELSE got.nextPageToken]
          /\ page' = [page EXCEPT ![r] = got.fids]
          /\ idx' = [idx EXCEPT ![r] = nx.idx]
          /\ pc' = [pc EXCEPT ![r] = nx.pc]
          /\ hist' = [hist EXCEPT ![r] =
                         EnterJob([@ EXCEPT !.returned = @ \cup
                                       { got.fids[i] : i \in 1..Len(got.fids) }],
                                  got.fids, nx)]
    /\ UNCHANGED << schedVars, pending, now, storeVars, ckpt, running, lastReturn,
                    lastJobTimestamp, lastFid, start, totalFidsChecked,
                    totalMessagesChecked, allSigners, numChecked >>

\* ---------------------------------------------------------- doJobForFid()
\* The entity run r is working on
CurFid(r) == page[r][idx[r]]

\* engine.getOnChainSignersByFid(fid) (line 142): the call passes no page token,
\* so every call returns the entity's first page
SignersFetch(f) ==
    [events |-> signerPages[f][1],
     nextPageToken |-> IF Len(signerPages[f]) > 1 THEN 1 ELSE NoToken]

\* lines 143-149: the signer fetch failed: doJobForFid returns the error, which
\* line 94 turns into a count of 0; doJobs goes on to doUsernamesJobForFid
SignersFetchErr(r) ==
    /\ pc[r] = "signers"
    /\ numChecked' = [numChecked EXCEPT ![r] = 0]
    /\ allSigners' = [allSigners EXCEPT ![r] = <<>>]
    /\ hist' = [hist EXCEPT ![r] =
                   [BeginEntity(@, CurFid(r)) EXCEPT
                        !.sigErr = TRUE, !.nameFids = @ \cup {CurFid(r)}]]
    /\ pc' = [pc EXCEPT ![r] = "usernames"]
    /\ UNCHANGED << schedVars, pending, now, storeVars, ckpt, running, lastReturn,
                    lastJobTimestamp, lastFid, start, pageToken, finished, page,
                    idx, totalFidsChecked, totalMessagesChecked >>

\* lines 151-175: a page of signer events arrives
SignersFetchOk(r) ==
    /\ pc[r] = "signers"
    /\ LET f == CurFid(r)
           got == SignersFetch(f)
           all == allSigners[r] \o got.events
       IN /\ Len(all) <= MaxSigners
          /\ IF got.nextPageToken # NoToken
             THEN \* line 158: not finished, fetch again
                  /\ allSigners' = [allSigners EXCEPT ![r] = all]
                  /\ hist' = [hist EXCEPT ![r] = BeginEntity(@, f)]
                  /\ UNCHANGED << pc, numChecked >>
             ELSE IF SkipsSweep(LatestSignerEventTs(all), lastJobTimestamp[r])
             THEN \* line 169: return ok(0)
                  /\ numChecked' = [numChecked EXCEPT ![r] = 0]
                  /\ allSigners' = [allSigners EXCEPT ![r] = <<>>]
                  /\ hist' = [hist EXCEPT ![r] =
                                 [BeginEntity(@, f) EXCEPT !.nameFids = @ \cup {f}]]
                  /\ pc' = [pc EXCEPT ![r] = "usernames"]
             ELSE \* line 175: the record sweep starts
                  /\ allSigners' = [allSigners EXCEPT ![r] = <<>>]
                  /\ pc' = [pc EXCEPT ![r] = "sweep"]
                  /\ hist' = [hist EXCEPT ![r] = BeginEntity(@, f)]
                  /\ UNCHANGED numChecked
    /\ UNCHANGED << schedVars, pending, now, storeVars, ckpt, running, lastReturn,
                    lastJobTimestamp, lastFid, start, pageToken, finished, page,
                    idx, totalFidsChecked, totalMessagesChecked >>

\* lines 174-214: the record sweep of the entity; doJobs then calls
\* doUsernamesJobForFid (line 92)
Sweep(r) ==
    /\ pc[r] = "sweep"
    /\ LET f == CurFid(r)
           sc == Scan(f, "job")
       IN /\ numChecked' = [numChecked EXCEPT ![r] = sc.count]
          /\ keys' = [keys EXCEPT ![f] = KeysAfter(f, sc)]
          /\ pending' = pending \ {f}
          /\ hist' = [hist EXCEPT
                 ![r].swept = TRUE,
                 ![r].calls = @ + Cardinality(sc.validated),
                 ![r].nameFids = @ \cup {f},
                 ![r].decoded = @ \cup { << "job", k >> : k \in sc.decoded },
                 ![r].validated = @ \cup { << "job", k >> : k \in sc.validated }]
    /\ pc' = [pc EXCEPT ![r] = "usernames"]
    /\ UNCHANGED << schedVars, now, fids, lateFids, signerPages, ckpt, running,
                    lastReturn, lastJobTimestamp, lastFid, start, pageToken,
                    finished, page, idx, totalFidsChecked, totalMessagesChecked,
                    allSigners >>

\* ------------------------------------------------- doUsernamesJobForFid()
\* lines 222-266, then lines 94-102 of doJobs: the unconditional scan, the
\* totals, and either the progress checkpoint or the next entity
Usernames(r) ==
    /\ pc[r] = "usernames"
    /\ LET f == CurFid(r)
           sc == Scan(f, "names")
           n == totalFidsChecked[r] + 1
           nx == IF BatchBoundary(n)
                 THEN [pc |-> "putProgress", idx |-> idx[r]]
                 ELSE LoopNext(page[r], idx[r] + 1, lastFid[r], finished[r])
       IN /\ keys' = [keys EXCEPT ![f] = KeysAfter(f, sc)]
          /\ totalMessagesChecked' = [totalMessagesChecked EXCEPT ![r] =
                                         AddCounts(@, numChecked[r], sc.count)]
          /\ totalFidsChecked' = [totalFidsChecked EXCEPT ![r] = n]
          /\ numChecked' = [numChecked EXCEPT ![r] = 0]
          /\ pc' = [pc EXCEPT ![r] = nx.pc]
          /\ idx' = [idx EXCEPT ![r] = nx.idx]
          /\ hist' = [hist EXCEPT ![r] = EnterJob(
                 [@ EXCEPT
                    !.decoded = @ \cup { << "names", k >> : k \in sc.decoded },
                    !.validated = @ \cup { << "names", k >> : k \in sc.validated },
                    !.calls = @ + Cardinality(sc.validated),
                    !.sincePut = @ + 1],
                 page[r], nx)]
    /\ UNCHANGED << schedVars, pending, now, fids, lateFids, signerPages, ckpt, running,
                    lastReturn, lastJobTimestamp, lastFid, start, pageToken,
                    finished, page, allSigners >>

\* lines 102-108: the progress checkpoint is written; the loop goes on
PutProgress(r) ==
    /\ pc[r] = "putProgress"
    /\ ckpt' = ProgressCheckpoint(r, CurFid(r))
    /\ LET nx == LoopNext(page[r], idx[r] + 1, lastFid[r], finished[r])
       IN /\ pc' = [pc EXCEPT ![r] = nx.pc]
          /\ idx' = [idx EXCEPT ![r] = nx.idx]
          /\ hist' = [hist EXCEPT ![r] = EnterJob(
                 [@ EXCEPT !.sincePut = 0], page[r], nx)]
    /\ UNCHANGED << schedVars, pending, now, storeVars, running, lastReturn, lastJobTimestamp,
                    lastFid, start, pageToken, finished, page, totalFidsChecked,
                    totalMessagesChecked, allSigners, numChecked >>

\* lines 112-119: all pages are exhausted; the terminal checkpoint is written
PutFinal(r) ==
    /\ pc[r] = "putFinal"
    /\ ckpt' = TerminalCheckpoint(r)
    /\ pc' = [pc EXCEPT ![r] = "finish"]
    /\ hist' = [hist EXCEPT ![r].sincePut = 0]
    /\ UNCHANGED << schedVars, pending, now, storeVars, running, lastReturn, runVars >>

\* lines 121-126: metrics, the flag is cleared, ok(totalMessagesChecked)
Finish(r) ==
    /\ pc[r] = "finish"
    /\ running' = FALSE
    /\ Gone(r)
    /\ lastReturn' = "ok"
    /\ UNCHANGED << schedVars, pending, now, storeVars, ckpt >>

\* ------------------------------------------------------- the environment
\* Time passes
Tick ==
    /\ now < FARCASTER_EPOCH + MaxTicks * TickMs
    /\ now' = now + TickMs
    /\ UNCHANGED << schedVars, pending, storeVars, ckpt, running, pc, lastReturn, runVars, hist >>

\* A new entity is registered: ids grow
AddFid ==
    /\ Max(fids) < MaxFid
    /\ fids' = fids \cup {Max(fids) + 1}
    /\ lateFids' = IF ckpt.lastFid > 0 /\ \A r \in Runs : ~InFlight(r)
                   THEN lateFids \cup {Max(fids) + 1} ELSE lateFids
    /\ UNCHANGED << schedVars, pending, now, signerPages, keys, ckpt, running, pc, lastReturn,
                    runVars, hist >>

\* The process is killed and restarted: the database stays, the scheduler object
\* (line 24: _running = false) and every run in flight are gone
Crash ==
    /\ \E r \in Runs : InFlight(r)
    /\ running' = FALSE
    /\ pc' = [r \in Runs |-> IF pc[r] = "idle" THEN "idle" ELSE "done"]
    /\ lastReturn' = "none"
    /\ lastJobTimestamp' = [r \in Runs |-> 0]
    /\ lastFid' = [r \in Runs |-> 0]
    /\ start' = [r \in Runs |-> 0]
    /\ pageToken' = [r \in Runs |-> NoToken]
    /\ finished' = [r \in Runs |-> FALSE]
    /\ page' = [r \in Runs |-> <<>>]
    /\ idx' = [r \in Runs |-> 1]
    /\ totalFidsChecked' = [r \in Runs |-> 0]
    /\ totalMessagesChecked' = [r \in Runs |-> 0]
    /\ allSigners' = [r \in Runs |-> <<>>]
    /\ numChecked' = [r \in Runs |-> 0]
    /\ hist' = [r \in Runs |-> NoHist]
    /\ cronTask' = NoTask
    /\ scheduled' = {}
    /\ lastCall' = "none"
    /\ fired' = FALSE
    /\ UNCHANGED << pending, now, storeVars, ckpt >>

Next ==
    \/ TriggerSkipped
    \/ \E r \in Runs : Trigger(r)
    \/ \E r \in Runs : GetHubStateErr(r)
    \/ \E r \in Runs : GetHubStateOk(r)
    \/ \E r \in Runs : GetFidsErr(r)
    \/ \E r \in Runs : GetFidsOk(r)
    \/ \E r \in Runs : SignersFetchErr(r)
    \/ \E r \in Runs : SignersFetchOk(r)
    \/ \E r \in Runs : Sweep(r)
    \/ \E r \in Runs : Usernames(r)
    \/ \E r \in Runs : PutProgress(r)
    \/ \E r \in Runs : PutFinal(r)
    \/ \E r \in Runs : Finish(r)
    \/ Tick
    \/ AddFid
    \/ Crash

Spec == Init /\ [][Next]_vars

\* ------------------------------------------------- start / stop / status
\* line 32: cron.schedule() creates a task that fires from then on; the handle
\* of the new task replaces the one held in _cronTask
Start ==
    /\ cronTask < MaxStarts
    /\ cronTask' = cronTask + 1
    /\ scheduled' = scheduled \cup {cronTask + 1}
    /\ lastCall' = "start"
    /\ fired' = FALSE
    /\ UNCHANGED << pending, now, storeVars, ckpt, running, pc, lastReturn,
                    runVars, hist >>

\* lines 36-38: the task held in _cronTask, if any, is stopped; the handle stays
Stop ==
    /\ scheduled' = IF cronTask # NoTask THEN scheduled \ {cronTask} ELSE scheduled
    /\ lastCall' = "stop"
    /\ fired' = FALSE
    /\ UNCHANGED << cronTask, pending, now, storeVars, ckpt, running, pc,
                    lastReturn, runVars, hist >>

\* line 42: return this._cronTask ? "started" : "stopped"
Status == IF cronTask # NoTask THEN "started" ELSE "stopped"

\* line 32: a task that is scheduled fires: () => this.doJobs(), which returns
\* ok(0) at once (lines 46-49) or suspends in getHubState (line 51)
CronFire ==
    /\ scheduled # {}
    /\ fired' = TRUE
    /\ IF running
       THEN lastReturn' = "skipped" /\ UNCHANGED pc
       ELSE /\ \E r \in Runs :
                  /\ pc[r] = "idle"
                  /\ \A q \in Runs : q < r => pc[q] # "idle"
                  /\ pc' = [pc EXCEPT ![r] = "getHubState"]
            /\ UNCHANGED lastReturn
    /\ UNCHANGED << cronTask, scheduled, lastCall, pending, now, storeVars, ckpt,
                    running, runVars, hist >>

\* The scheduler with its triggers: start(), stop(), the tasks firing, direct
\* doJobs() calls and the runs they start.  The clock and the set of entities
\* stand still.
SchedInit == Init /\ signerPages = [f \in Fids |-> NoSigners]

SchedNext ==
    \/ Start
    \/ Stop
    \/ CronFire
    \/ TriggerSkipped
    \/ \E r \in Runs : Trigger(r)
    \/ \E r \in Runs : GetHubStateErr(r)
    \/ \E r \in Runs : GetHubStateOk(r)
    \/ \E r \in Runs : GetFidsErr(r)
    \/ \E r \in Runs : GetFidsOk(r)
    \/ \E r \in Runs : SignersFetchErr(r)
    \/ \E r \in Runs : SignersFetchOk(r)
    \/ \E r \in Runs : Sweep(r)
    \/ \E r \in Runs : Usernames(r)
    \/ \E r \in Runs : PutProgress(r)
    \/ \E r \in Runs : PutFinal(r)
    \/ \E r \in Runs : Finish(r)
    \/ Crash

SchedSpec == SchedInit /\ [][SchedNext]_vars

\* ------------------------------------------------ signer changes arriving
\* An entity changes its signers: the event carries the block time, in seconds
AddSigner(f) ==
    /\ f \in fids
    /\ signerPages[f] = NoSigners
    /\ Cardinality({ g \in Fids : signerPages[g] # NoSigners }) < MaxEvents
    /\ signerPages' = [signerPages EXCEPT ![f] = << << now \div 1000 >> >>]
    /\ pending' = pending \cup {f}
    /\ UNCHANGED << schedVars, now, fids, lateFids, keys, ckpt, running, pc,
                    lastReturn, runVars, hist >>

\* doJobs() is called while no other call is in flight
TriggerAlone(r) ==
    /\ \A q \in Runs : ~InFlight(q)
    /\ Trigger(r)

\* The runs with signer changes arriving while and between them.  No entity
\* has a signer event at the start, the signer source answers every fetch and
\* the calls of doJobs() do not overlap.
EventInit == Init /\ signerPages = [f \in Fids |-> NoSigners]

EventNext ==
    \/ \E f \in Fids : AddSigner(f)
    \/ TriggerSkipped
    \/ \E r \in Runs : TriggerAlone(r)
    \/ \E r \in Runs : GetHubStateErr(r)
    \/ \E r \in Runs : GetHubStateOk(r)
    \/ \E r \in Runs : GetFidsErr(r)
    \/ \E r \in Runs : GetFidsOk(r)
    \/ \E r \in Runs : SignersFetchOk(r)
    \/ \E r \in Runs : Sweep(r)
    \/ \E r \in Runs : Usernames(r)
    \/ \E r \in Runs : PutProgress(r)
    \/ \E r \in Runs : PutFinal(r)
    \/ \E r \in Runs : Finish(r)
    \/ Tick
    \/ AddFid
    \/ Crash

EventSpec == EventInit /\ [][EventNext]_vars

\* ================================================================ claims
Range(q) == { q[i] : i \in 1..Len(q) }

\* The entities of run r's current page that its loop has not reached yet
Upcoming(r) == { page[r][i] : i \in (idx[r] + 1)..Len(page[r]) }

\* The latest signer-change event of entity f over all its pages, in Farcaster time
TrueLatestSignerTs(f) ==
    ToFarcasterTimeOr0(1000 * Max({0} \cup UNION { Range(signerPages[f][i]) :
                                                     i \in 1..Len(signerPages[f]) }))

\* C1: the number of scans executing concurrently (runs past the running-flag
\* check that have not returned) never exceeds 1.
C1_AtMostOneScan == Cardinality({ r \in Runs : InFlight(r) }) <= 1

\* C2: a run that starts from a progress checkpoint with lastFid = X > 0 calls
\* neither scan for an entity below X, and calls both scans for every entity
\* >= X that getFids returns to it, entities added after the interruption
\* included.
C2_ResumeCorrectness ==
    \A r \in Runs : (InFlight(r) /\ lastFid[r] > 0) =>
        /\ \A f \in hist[r].jobFids \cup hist[r].nameFids : f >= lastFid[r]
        /\ \A f \in hist[r].returned \ Upcoming(r) :
               f >= lastFid[r] =>
                  /\ f \in hist[r].jobFids
                  /\ \/ f \in hist[r].nameFids
                     \/ (pc[r] \in {"signers", "sweep"} /\ f = CurFid(r))

\* C2 witness: a resumed run has skipped entity 1 and run both scans for an
\* entity added after the interruption.
C2_Witness ==
    \E r \in Runs : \E f \in lateFids :
        /\ pc[r] = "finish" /\ lastFid[r] > 1
        /\ 1 \in hist[r].returned /\ 1 \notin hist[r].jobFids
        /\ f > lastFid[r]
        /\ f \in hist[r].jobFids /\ f \in hist[r].nameFids

\* C3: whenever doJobs() has exhausted all entity pages and returns success,
\* the persisted checkpoint is then lastFid = 0 and lastJobTimestamp = the
\* Farcaster time of that run's own start.
C3_TerminalCheckpointAtReturn ==
    [][\A r \in Runs :
          (pc[r] = "finish" /\ pc'[r] = "done" /\ lastReturn' = "ok") =>
              ckpt' = [lastFid |-> 0,
                       lastJobTimestamp |-> ToFarcasterTimeOr0(start[r])]]_vars

\* The terminal write itself stores that value, for a fresh and for a resumed
\* run; only another run's write can come between it and the return.
TerminalWriteValue ==
    [][\A r \in Runs :
          (pc[r] = "putFinal" /\ pc'[r] = "finish") =>
              ckpt' = [lastFid |-> 0,
                       lastJobTimestamp |-> ToFarcasterTimeOr0(start[r])]]_vars

\* C4: a failed signer-event fetch aborts the run: a run whose signer fetch has
\* failed is not in flight any more.
C4_SignerFailureAborts == \A r \in Runs : hist[r].sigErr => ~InFlight(r)

\* C5: every run that sets the running flag clears it, on abort as on success:
\* when no run is in flight the flag is clear, so the next trigger is not
\* treated as already running.
C5_FlagClearWhenNoRun == (\A r \in Runs : ~InFlight(r)) => ~running

\* C6: a run that returns an error (checkpoint fetch or entity-page fetch
\* failure) does so from one of these two awaits and leaves the persisted
\* checkpoint as it was; the run makes no step after it.
C6_AbortWritesNothing ==
    [][\A r \in Runs :
          /\ (InFlight(r) /\ pc'[r] = "done" /\ lastReturn' = "err") =>
                 /\ pc[r] \in {"getHubState", "getFids"}
                 /\ ckpt' = ckpt
          /\ pc[r] = "done" => (pc'[r] = "done" /\ hist'[r] = NoHist)]_vars

\* C6 witness: a run has returned an error after its progress checkpoint was
\* persisted.
C6_Witness ==
    /\ lastReturn = "err"
    /\ ckpt.lastFid > 0
    /\ \A r \in Runs : ~InFlight(r)

KeyIsCandidate(scan, k) ==
    /\ k.len = 1 + FID_BYTES + 1 + TSHASH_LENGTH
    /\ IF scan = "job" THEN k.postfix <= UserMessagePostfixMax
       ELSE k.postfix \in {UsernameProofMessage, UserDataMessage}

C10_KeyFiltering ==
    [][\A r \in Runs :
          /\ \A v \in hist'[r].decoded \cup hist'[r].validated :
                 KeyIsCandidate(v[1], v[2])
          /\ hist'[r].validated \subseteq hist'[r].decoded
          /\ (pc[r] = "sweep" /\ pc'[r] = "usernames") =>
                \A k \in Range(keys[CurFid(r)]) :
                    KeyIsCandidate("job", k) => << "job", k >> \in hist'[r].decoded
          /\ (pc[r] = "usernames" /\ pc'[r] \notin {"usernames", "done"}) =>
                \A k \in Range(keys[CurFid(r)]) :
                    KeyIsCandidate("names", k) => << "names", k >> \in hist'[r].decoded]_vars

\* C10 witness: a sweep has skipped a key of another length and a key with a
\* type tag out of range, and has decoded a key that follows a skipped one.
C10_Witness ==
    \E r \in Runs :
        /\ pc[r] = "usernames" /\ hist[r].swept
        /\ \E i, j \in 1..Len(RichKeys) :
              /\ i < j
              /\ RichKeys[i].len # 1 + FID_BYTES + 1 + TSHASH_LENGTH
              /\ << "job", RichKeys[i] >> \notin hist[r].decoded
              /\ << "job", RichKeys[j] >> \in hist[r].validated
        /\ \E k \in Range(RichKeys) :
              /\ k.postfix > UserMessagePostfixMax
              /\ << "job", k >> \notin hist[r].decoded

\* C11: a doJobs() call made while the running flag is set returns ok(0) and
\* changes nothing else: no checkpoint read or write, no fetch, no validation,
\* the flag stays set; and no call made while the flag is set starts a run.
C11_SkippedTriggerNoOp ==
    [][/\ (lastReturn' = "skipped" /\ lastReturn # "skipped") =>
             /\ running /\ running'
             /\ UNCHANGED << now, storeVars, ckpt, pc, runVars, hist, schedVars,
                             pending >>
       /\ running => \A r \in Runs : pc[r] = "idle" => pc'[r] = "idle"]_vars

\* C11 witness: a call was skipped while a run is in the middle of a sweep, and
\* that run is still there with the flag set.
C11_Witness ==
    /\ lastReturn = "skipped" /\ running
    /\ \E r \in Runs : pc[r] = "sweep" /\ hist[r].jobFids # {}

\* C12: after stop() has returned no scheduled task fires doJobs() (until the
\* next start()), however many times start() was called before; and stop()
\* leaves every run in flight, the flag and the checkpoint as they are.
C12_StopHaltsTriggers ==
    [][/\ lastCall' = "stop" => ~fired'
       /\ (lastCall' = "stop" /\ ~fired' /\ schedVars' # schedVars) =>
             UNCHANGED << pc, runVars, hist, ckpt, running >>]_vars

\* C13: status() is "started" exactly when a trigger is registered: start() was
\* called and stop() has not been called since; whatever the runs do.
C13_StatusIsRegistration == (Status = "started") <=> (lastCall = "start")

\* The signer-change events of entity f, page after page
RECURSIVE Flatten(_)
Flatten(ps) == IF ps = <<>> THEN <<>> ELSE Head(ps) \o Flatten(Tail(ps))

\* C14: the signer fetch loop issues one fetch per page, each continuing from
\* the previous page's token: what it has accumulated is always the events of
\* the entity's first pages, in order, each page once (so that it ends after
\* the last page with the events of all pages).
C14_SignerPagesAccumulated ==
    \A r \in Runs :
        pc[r] = "signers" =>
            LET all == Flatten(signerPages[CurFid(r)])
            IN /\ Len(allSigners[r]) <= Len(all)
               /\ allSigners[r] = SubSeq(all, 1, Len(allSigners[r]))

\* C15: when doJobForFid has fetched the entity's events it runs the record
\* sweep if and only if the newest event, in Farcaster time (0 without
\* events), is >= the lastJobTimestamp the run loaded; otherwise it returns a
\* count of 0 without a sweep.
C15_ChangeDetectionDecision ==
    [][\A r \in Runs :
          /\ (pc[r] = "signers" /\ pc'[r] = "sweep") =>
                TrueLatestSignerTs(CurFid(r)) >= lastJobTimestamp[r]
          /\ (pc[r] = "signers" /\ pc'[r] = "usernames" /\ ~hist'[r].sigErr) =>
                /\ TrueLatestSignerTs(CurFid(r)) < lastJobTimestamp[r]
                /\ numChecked'[r] = 0
                /\ ~hist'[r].swept
          /\ (pc[r] = "sweep" /\ pc'[r] = "usernames") => hist'[r].swept]_vars

\* C15 witness: an entity whose newest signer event is exactly at the loaded
\* watermark (> 0) has been swept.
C15_Witness ==
    \E r \in Runs :
        /\ pc[r] = "usernames" /\ hist[r].swept
        /\ lastJobTimestamp[r] > 0
        /\ TrueLatestSignerTs(hist[r].fid) = lastJobTimestamp[r]

\* C15 witness of the zero-value checkpoint: an entity without any signer
\* event has been swept by a run that loaded lastJobTimestamp = 0.
C15_ZeroCheckpointSweeps ==
    \E r \in Runs :
        /\ pc[r] = "usernames" /\ hist[r].swept
        /\ lastJobTimestamp[r] = 0
        /\ signerPages[hist[r].fid] = NoSigners

\* The records of entity f that scan `scan` decodes successfully
Decodable(f, scan) ==
    { k \in Range(keys[f]) : KeyIsCandidate(scan, k) /\ k.decodes }

C17_SequentialAscending ==
    [][\A r \in Runs :
          /\ (hist'[r].jobFids # hist[r].jobFids /\ pc'[r] # "done") =>
                /\ pc[r] \in {"getFids", "usernames", "putProgress"}
                /\ pc'[r] = "signers"
                /\ page'[r][idx'[r]] \notin hist[r].jobFids
                /\ hist'[r].jobFids = hist[r].jobFids \cup {page'[r][idx'[r]]}
                /\ \A g \in hist[r].jobFids : g < page'[r][idx'[r]]
                /\ hist[r].jobFids \subseteq hist[r].nameFids
          /\ (hist'[r].nameFids # hist[r].nameFids /\ pc'[r] # "done") =>
                /\ pc[r] \in {"signers", "sweep"}
                /\ pc'[r] = "usernames"
                /\ CurFid(r) \in hist[r].jobFids \ hist[r].nameFids
                /\ hist'[r].nameFids = hist[r].nameFids \cup {CurFid(r)}
          /\ (pc[r] # "putFinal" /\ pc'[r] = "putFinal") =>
                \A f \in hist'[r].returned :
                    /\ f \in hist'[r].jobFids <=> ~(lastFid[r] > 0 /\ f < lastFid[r])
                    /\ f \in hist'[r].nameFids <=> f \in hist'[r].jobFids
          /\ (pc[r] = "getHubState" /\ pc'[r] = "getFids") =>
                pageToken'[r] = NoToken
          /\ (hist[r].returned = {} /\ hist'[r].returned # {}) =>
                Min(fids) \in hist'[r].returned]_vars

\* C17 witness: a run that resumed from a checkpoint has exhausted two pages
\* and has processed the entity of the last page.
C17_Witness ==
    \E r \in Runs :
        /\ pc[r] = "putFinal" /\ lastFid[r] > 0
        /\ hist[r].returned = 1..MaxFid
        /\ MaxFid \in hist[r].nameFids
        /\ 1 \notin hist[r].jobFids

\* C18: whenever the persisted checkpoint is a terminal one with
\* lastJobTimestamp = T, every signer-change event with a time < T has been
\* followed by a record sweep of its entity: no entity with an event older than
\* T is still waiting for its sweep.
C18_WatermarkSound ==
    ckpt.lastFid = 0 =>
        \A f \in pending : TrueLatestSignerTs(f) >= ckpt.lastJobTimestamp

\* C19: the persisted lastJobTimestamp never decreases, whatever the
\* interleaving of triggers, checkpoint writes and aborts (the clock of the
\* model never goes back); and no progress checkpoint replaces a terminal
\* checkpoint of a run that started after the writing run.
C19_WatermarkMonotone ==
    [][/\ ckpt'.lastJobTimestamp >= ckpt.lastJobTimestamp
       /\ \A r \in Runs :
             (pc[r] = "putProgress" /\ pc'[r] \notin {"putProgress", "done"}) =>
                 ~(ckpt.lastFid = 0
                     /\ ckpt.lastJobTimestamp > ToFarcasterTimeOr0(start[r]))]_vars

\* The username-proof and user-data type tags
IsNameRecord(k) == k.postfix \in {UsernameProofMessage, UserDataMessage}

\* What the run has counted is what it has called: the sum of the counts the
\* scans returned is the number of validateOrRevokeMessage calls made, at every
\* step and so at the return of ok(totalMessagesChecked).
CountIsCalls(r) ==
    /\ totalMessagesChecked'[r] + numChecked'[r] = hist'[r].calls
    /\ (pc[r] = "finish" /\ pc'[r] = "done" /\ lastReturn' = "ok") =>
          totalMessagesChecked[r] = hist[r].calls

\* A record validated by both scans is a username-proof or user-data record
\* of a swept entity; no other record is validated by more than one scan.
OthersAtMostOnce(r) ==
    \A v \in hist'[r].validated :
        /\ v[1] = "job" => hist'[r].swept
        /\ v[1] = "names" => IsNameRecord(v[2])

====
